---- MODULE Spec2Model ----
(***************************************************************************)
(* Model of the recoil drill engine, components/CanvasDrill.jsx.           *)
(*                                                                         *)
(* Units.  Times are integer milliseconds of performance.now(); the left-  *)
(* click timestamps, which the code keeps in seconds (now / 1000), are     *)
(* kept in milliseconds and every comparison against "1 second" is made    *)
(* against 1000.  Positions (target, aim point, errors) are kept in units  *)
(* of 1/FrameHz pixel, so that the per-frame displacement                  *)
(* upPerSec * (1/60) is an exact integer.  Canvas sizes, radii, pointer    *)
(* deltas and the dead-zone are in pixels.                                 *)
(*                                                                         *)
(* React.  A state update (setRunning, setCountdown, setTimeLeft) and the  *)
(* re-render it causes are taken together with the handler that made it:   *)
(* the main-loop effect is torn down and re-registered in the same step.   *)
(* The values of running / countdown that the loop closure reads are       *)
(* therefore the values of the state variables before the step.            *)
(*                                                                         *)
(* Host.  The canvas is at least two target radii wide and has been        *)
(* measured once before any input arrives.  performance.now() is positive. *)
(* The random draws are taken from a few representative values; the        *)
(* jitter settings used are even, so that half-steps of it are exact.      *)
(* The variables emitted .. inputs observe the run (callback payloads,     *)
(* loop locals, event counts); the program does not read them.             *)
(***************************************************************************)
EXTENDS Integers, Sequences, FiniteSets, TLC

VARIABLES
    now,              \* performance.now(), ms
    vsync,            \* a display refresh is due (host)
    hidden,           \* document.hidden
    locked,           \* document.pointerLockElement === canvas
    setg,             \* the settings object
    size,             \* size.current {w, h}
    running,          \* React state
    countdown,        \* React state
    timeLeft,         \* React state (ms)
    rafPending,       \* rafId.current names a pending frame callback
    rafQueue,         \* frame callbacks requested and neither run nor cancelled
    timers,           \* outstanding setTimeout(endSession, 0)
    countdownStartMs,
    startedAtMs,
    sessionEndAtMs,
    lastSecondShown,
    target,           \* target.current {x, y}
    aimRef,           \* aimRef.current {x, y}
    lastMouseDy,
    errorHistory,
    pathPoints,
    leftCount,
    midCount,
    rightCount,
    lTimestamps,
    buttons,          \* buttons.current {L, M, R}
    cpsOut,           \* cps of the last onClickUpdate payload
    emitted,          \* payloads of the onSessionEnd invocations since the last startSession
    started,          \* startSession was called at least once
    dirtyAtStart,     \* the last startSession found click counts and histories non-empty
    fresh,            \* no frame and no mouse-down since the last startSession
    frames,           \* frame passes since the last startSession
    step,             \* locals of the last frame pass (vy, dy, comp, ...)
    downTimes,        \* times of all left-button downs since the last startSession
    motion,           \* a mousemove event arrived since the last frame pass
    inputs            \* input events so far (keys, button, pointer, resize, visibility)

vars == <<now, vsync, hidden, locked, setg, size, running, countdown, timeLeft,
          rafPending, rafQueue, timers, countdownStartMs, startedAtMs,
          sessionEndAtMs,
          lastSecondShown, target, aimRef, lastMouseDy, errorHistory,
          pathPoints, leftCount, midCount, rightCount, lTimestamps, buttons,
          cpsOut, emitted, started, dirtyAtStart, fresh, frames, step,
          downTimes, motion, inputs>>

(***************************************************************************)
(* Bounds of the exploration.                                              *)
(***************************************************************************)
MaxNow == 6000
MaxInputs == 3

(***************************************************************************)
(* Program constants.                                                      *)
(***************************************************************************)
FrameHz == 60
ErrCap == 300
PathCap == 800
CpsWindowMs == 1000

\* the clock at construction and the amounts by which it advances
StartNow == 1000
TickSteps == {1000}

(***************************************************************************)
(* Arithmetic helpers.                                                     *)
(***************************************************************************)
Min(a, b) == IF a <= b THEN a ELSE b
Max(a, b) == IF a >= b THEN a ELSE b
Abs(a) == IF a < 0 THEN -a ELSE a

clamp(v, a, b) == Min(b, Max(a, v))

\* Math.floor(a / b) for b > 0 and any sign of a
FloorDiv(a, b) == IF a >= 0 THEN a \div b ELSE -((-a + b - 1) \div b)

\* Math.ceil(a / b) for a >= 0, b > 0
CeilDiv(a, b) == (a + b - 1) \div b

\* Math.round(a / b) and toFixed rounding, for a >= 0, b > 0
RoundDiv(a, b) == (2 * a + b) \div (2 * b)

RECURSIVE SqrtSearch(_, _, _)
SqrtSearch(n, lo, hi) ==
    IF lo >= hi THEN lo
    ELSE LET mid == (lo + hi) \div 2
         IN  IF mid * mid >= n THEN SqrtSearch(n, lo, mid)
             ELSE SqrtSearch(n, mid + 1, hi)

\* Math.hypot(dx, dy), rounded up to the next 1/FrameHz pixel; exact
\* whenever the distance is a whole number of units (dx = 0 or dy = 0)
hypot(dx, dy) ==
    IF dx = 0 THEN Abs(dy)
    ELSE IF dy = 0 THEN Abs(dx)
    ELSE SqrtSearch(dx * dx + dy * dy, 0, Abs(dx) + Abs(dy))

RECURSIVE SumSeq(_)
SumSeq(s) ==
    IF Len(s) = 0 THEN 0
    ELSE IF Len(s) = 1 THEN s[1]
    ELSE LET half == Len(s) \div 2
         IN  SumSeq(SubSeq(s, 1, half)) + SumSeq(SubSeq(s, half + 1, Len(s)))

(***************************************************************************)
(* Settings and inputs.                                                    *)
(***************************************************************************)
BaseSetg ==
    [countdownSec |-> 0, durationSec |-> 5, startGraceMs |-> 0,
     deadZoneY |-> 0, recoilSpeed |-> 600, recoilJitter |-> 0,
     compensationGain |-> 1, targetRadius |-> 8, showPath |-> FALSE,
     cursorMode |-> "fixed"]

SettingsSet ==
    { BaseSetg,
      [BaseSetg EXCEPT !.countdownSec = 1, !.startGraceMs = 1000,
                       !.deadZoneY = 2, !.compensationGain = 2,
                       !.showPath = TRUE],
      [BaseSetg EXCEPT !.cursorMode = "free"] }

\* settings with a random recoil: 600 px/s -+ up to 600 px/s
JitterSetg ==
    [BaseSetg EXCEPT !.recoilJitter = 600, !.targetRadius = 10,
                     !.startGraceMs = 1000, !.deadZoneY = 2,
                     !.compensationGain = 2]

\* the settings of the motionless end-to-end scenario: no recoil, no
\* jitter, no compensation, radius 20, no countdown, five seconds
StillSetg ==
    [BaseSetg EXCEPT !.recoilSpeed = 0, !.compensationGain = 0,
                     !.targetRadius = 20]

\* canvas.getBoundingClientRect() sizes, px
Sizes == { [w |-> 40, h |-> 40], [w |-> 64, h |-> 32] }

\* Math.random() * 2 - 1, in halves: -1 and 1/2
JitterHalves == {-2, 1}

\* Math.random() * 200 - 100, px
WrapOffsets == {-100, 7, 99}

\* mouse events: movementX/Y and clientX/Y relative to the canvas rect
MoveEvents ==
    { [mx |-> 0, my |-> -3, cx |-> 12, cy |-> 9],
      [mx |-> 0, my |-> -1, cx |-> 12, cy |-> 50],
      [mx |-> 70, my |-> 3, cx |-> -4, cy |-> 20] }

Buttons == {0, 1, 2}

NoStep ==
    [run |-> FALSE, vy |-> 0, dyIn |-> 0, dy |-> 0, comp |-> 0, yMid |-> 0,
     wrap |-> FALSE, inGrace |-> FALSE, msLeft |-> 0]

(***************************************************************************)
(* The session summary (endSession, result aggregation).                   *)
(* avgError is in tenths of a pixel, hitRate in tenths of a percent,       *)
(* avgCps in hundredths: the values after toFixed.                         *)
(***************************************************************************)
AvgError(errors) ==
    IF Len(errors) # 0
    THEN RoundDiv(SumSeq(errors) * 10, Len(errors) * FrameHz)
    ELSE 0

HitFrames(errors, hitRadius) ==
    Len(SelectSeq(errors, LAMBDA e : e <= hitRadius * FrameHz))

\* a slip: the ratio taken the wrong way round
ApproxHits_Inverted(errors, shots, hitRadius) ==
    IF shots > 0 /\ Len(errors) > 0
    THEN RoundDiv(HitFrames(errors, hitRadius) * Len(errors), shots)
    ELSE 0

\* a slip: the hit frames scaled by the shots and not divided by the
\* length of the history
ApproxHits_Undivided(errors, shots, hitRadius) ==
    IF shots > 0 /\ Len(errors) > 0
    THEN HitFrames(errors, hitRadius) * shots
    ELSE 0

ApproxHits(errors, shots, hitRadius) ==
    IF shots > 0 /\ Len(errors) > 0
    THEN RoundDiv(HitFrames(errors, hitRadius) * shots, Len(errors))
    ELSE 0

HitRate(errors, shots, hitRadius) ==
    IF shots # 0
    THEN RoundDiv(ApproxHits(errors, shots, hitRadius) * 1000, shots)
    ELSE 0

\* a slip: an empty span floored to one millisecond instead of guarded
AvgCps_SpanFloor(ts) ==
    IF Len(ts) >= 2
    THEN RoundDiv(Len(ts) * 1000 * 100, Max(ts[Len(ts)] - ts[1], 1))
    ELSE 0

AvgCps(ts) ==
    IF Len(ts) >= 2
    THEN LET dur == ts[Len(ts)] - ts[1]
         IN  IF dur > 0 THEN RoundDiv(Len(ts) * 1000 * 100, dur) ELSE 0
    ELSE 0

Summary ==
    [durationSec |-> setg.durationSec,
     avgError |-> AvgError(errorHistory),
     hitRate |-> HitRate(errorHistory, leftCount, setg.targetRadius),
     shots |-> leftCount,
     avgCps |-> AvgCps(lTimestamps)]

(***************************************************************************)
(* Initial state: the component is mounted, the ResizeObserver has         *)
(* reported the canvas size once, no session was started.                  *)
(***************************************************************************)
Mounted ==
    /\ now = StartNow
    /\ vsync = TRUE
    /\ hidden = FALSE
    /\ locked = FALSE
    /\ running = FALSE
    /\ countdown = 0
    /\ timeLeft = 0
    /\ rafPending = FALSE
    /\ rafQueue = 0
    /\ timers = 0
    /\ countdownStartMs = 0
    /\ startedAtMs = 0
    /\ sessionEndAtMs = 0
    /\ lastSecondShown = -1
    /\ target = [x |-> 0, y |-> 0]
    /\ aimRef = [x |-> (size.w * FrameHz) \div 2, y |-> (size.h * FrameHz) \div 2]
    /\ lastMouseDy = 0
    /\ errorHistory = <<>>
    /\ pathPoints = <<>>
    /\ leftCount = 0
    /\ midCount = 0
    /\ rightCount = 0
    /\ lTimestamps = <<>>
    /\ buttons = [L |-> FALSE, M |-> FALSE, R |-> FALSE]
    /\ cpsOut = 0
    /\ emitted = <<>>
    /\ started = FALSE
    /\ dirtyAtStart = FALSE
    /\ fresh = FALSE
    /\ frames = 0
    /\ step = NoStep
    /\ downTimes = <<>>
    /\ motion = FALSE

Init ==
    /\ setg \in SettingsSet
    /\ size \in Sizes
    /\ Mounted
    /\ inputs = 0

\* the same component mounted with the random-recoil settings
InitJitter ==
    /\ setg = JitterSetg
    /\ size = [w |-> 40, h |-> 40]
    /\ Mounted
    /\ inputs = 0

\* the same component mounted with the motionless settings
InitStill ==
    /\ setg = StillSetg
    /\ size = [w |-> 40, h |-> 40]
    /\ Mounted
    /\ inputs = 0

\* the mounted component after the ResizeObserver reported the canvas
\* sizes that led to this one: all but two of the input events are spent
InitFair ==
    /\ setg \in SettingsSet
    /\ size = [w |-> 40, h |-> 40]
    /\ Mounted
    /\ inputs = MaxInputs - 2

\* the errors of one passage of the target from the wrap position up to
\* the next wrap, with the base settings on the 40 x 40 canvas and the
\* target straight above and below the fixed aim point
RecoilCycle == <<1680, 1080, 480, 120, 720, 1320>>

\* the error history of such a session two frames before it is full: the
\* three frames from the start position to the first wrap, then the cycle
LongHistory ==
    [i \in 1..(ErrCap - 2) |->
        IF i <= 3 THEN (i - 1) * 600 ELSE RecoilCycle[((i - 4) % 6) + 1]]

\* a session in its running phase after that many frames on a fast
\* display, the last of them a wrap: started and latched 900 ms ago with the
\* base settings; the start, and pointer moves without the lock before the
\* frames, were the input events so far, and two are left
InitLong ==
    /\ setg = BaseSetg
    /\ size = [w |-> 40, h |-> 40]
    /\ now = StartNow
    /\ vsync = TRUE
    /\ hidden = FALSE
    /\ locked = FALSE
    /\ running = TRUE
    /\ countdown = 0
    /\ timeLeft = 5000
    /\ rafPending = TRUE
    /\ rafQueue = 1
    /\ timers = 0
    /\ countdownStartMs = StartNow - 900
    /\ startedAtMs = StartNow - 900
    /\ sessionEndAtMs = StartNow - 900 + 5000
    /\ lastSecondShown = 5
    /\ target = [x |-> 20 * FrameHz, y |-> 48 * FrameHz]
    /\ aimRef = [x |-> 20 * FrameHz, y |-> 20 * FrameHz]
    /\ lastMouseDy = 0
    /\ errorHistory = LongHistory
    /\ pathPoints = <<>>
    /\ leftCount = 0
    /\ midCount = 0
    /\ rightCount = 0
    /\ lTimestamps = <<>>
    /\ buttons = [L |-> FALSE, M |-> FALSE, R |-> FALSE]
    /\ cpsOut = 0
    /\ emitted = <<>>
    /\ started = TRUE
    /\ dirtyAtStart = FALSE
    /\ fresh = FALSE
    /\ frames = Len(errorHistory)
    /\ step = [run |-> TRUE, vy |-> 600, dyIn |-> 0, dy |-> 0, comp |-> 0,
               yMid |-> -12 * FrameHz, wrap |-> TRUE, inGrace |-> FALSE,
               msLeft |-> 4100]
    /\ downTimes = <<>>
    /\ motion = FALSE
    /\ inputs = MaxInputs - 2

hostVars == <<now, vsync, hidden, locked, setg, size>>
reactVars == <<running, countdown, timeLeft, rafPending, rafQueue>>
timeVars == <<countdownStartMs, startedAtMs, sessionEndAtMs, lastSecondShown>>
posVars == <<target, aimRef, lastMouseDy>>
statVars == <<errorHistory, pathPoints, leftCount, midCount, rightCount,
              lTimestamps>>
obsVars == <<started, dirtyAtStart, fresh, frames, step, downTimes, motion>>

(***************************************************************************)
(* startSession, followed by the re-render it causes: running is true, so  *)
(* the main-loop effect requests a frame.                                  *)
(***************************************************************************)
\* a slip: the left counter survives a restart
ResetStats_KeepLeft ==
    /\ errorHistory' = <<>>
    /\ pathPoints' = <<>>
    /\ leftCount' = leftCount
    /\ midCount' = 0
    /\ rightCount' = 0
    /\ lTimestamps' = <<>>
    /\ lastMouseDy' = 0

\* a slip: the middle and right counters survive a restart
ResetStats_KeepCounts ==
    /\ errorHistory' = <<>>
    /\ pathPoints' = <<>>
    /\ leftCount' = 0
    /\ midCount' = midCount
    /\ rightCount' = rightCount
    /\ lTimestamps' = <<>>
    /\ lastMouseDy' = 0

\* the statistics reset of startSession
ResetStats ==
    /\ errorHistory' = <<>>
    /\ pathPoints' = <<>>
    /\ leftCount' = 0
    /\ midCount' = 0
    /\ rightCount' = 0
    /\ lTimestamps' = <<>>
    /\ lastMouseDy' = 0

\* the position reset of startSession
ResetPositions ==
    /\ target' = [x |-> (size.w * FrameHz) \div 2,
                  y |-> ((size.h * 3) \div 4) * FrameHz]
    /\ aimRef' = [x |-> (size.w * FrameHz) \div 2,
                  y |-> (size.h * FrameHz) \div 2]

\* a slip: the cancellation that removes nothing
Cancelled_Noop(q, live) == q

\* if (rafId.current) cancelAnimationFrame(rafId.current): the callbacks
\* left of q, where live says that rafId.current names one of them
Cancelled(q, live) == IF live THEN q - 1 ELSE q

\* a render of the component with running = true: setg is a new object, so
\* the loop effect is torn down (its cleanup cancels the frame, if an effect
\* with a cleanup was registered) and registered again (a new request)
Rerendered(q, live) == Cancelled(q, live) + 1

\* startSession, followed by the re-render it causes
startSession ==
    /\ countdownStartMs' = now
    /\ startedAtMs' = 0
    /\ sessionEndAtMs' = 0
    /\ countdown' = setg.countdownSec
    /\ timeLeft' = setg.durationSec * 1000
    /\ lastSecondShown' = -1
    /\ running' = TRUE
    /\ ResetStats
    /\ ResetPositions
    /\ rafPending' = TRUE
    /\ rafQueue' = Rerendered(rafQueue, running /\ rafPending)
    /\ started' = TRUE
    /\ dirtyAtStart' = (/\ errorHistory # <<>>
                        /\ lTimestamps # <<>>
                        /\ leftCount > 0)
    /\ emitted' = <<>>
    /\ fresh' = TRUE
    /\ frames' = 0
    /\ step' = NoStep
    /\ downTimes' = <<>>
    /\ motion' = FALSE
    /\ UNCHANGED <<buttons, cpsOut>>

(***************************************************************************)
(* endSession, followed by the re-render it causes: running is false, so   *)
(* the effect cleanup leaves no frame requested.                           *)
(***************************************************************************)
\* a slip: the pending frame callback is left requested
cancelFrame_Forgotten == rafPending' = rafPending /\ rafQueue' = rafQueue

\* cancelAnimationFrame(rafId.current); rafId.current = 0, and the effect
\* cleanup of the re-render with running = false
cancelFrame ==
    /\ rafPending' = FALSE
    /\ rafQueue' = Cancelled(rafQueue, rafPending)

endSession ==
    /\ cancelFrame
    /\ running' = FALSE
    /\ countdown' = 0
    /\ emitted' = Append(emitted, Summary)
    /\ UNCHANGED <<timeLeft, timeVars, posVars, statVars, buttons, cpsOut,
                   obsVars>>

\* a slip: the key starts a session whether or not one is active
onKey_StartOnly ==
    /\ ~hidden
    /\ inputs < MaxInputs
    /\ inputs' = inputs + 1
    /\ startSession
    /\ UNCHANGED <<hostVars, timers>>

\* onKey: the Space key
onKey ==
    /\ ~hidden
    /\ inputs < MaxInputs
    /\ inputs' = inputs + 1
    /\ IF running THEN endSession ELSE startSession
    /\ UNCHANGED <<hostVars, timers>>

\* the start/stop button
onButtonClick ==
    /\ ~hidden
    /\ inputs < MaxInputs
    /\ inputs' = inputs + 1
    /\ IF running THEN endSession ELSE startSession
    /\ UNCHANGED <<hostVars, timers>>

\* a slip: the hidden document not acted on
onVis_Ignored ==
    /\ inputs < MaxInputs
    /\ inputs' = inputs + 1
    /\ hidden' = ~hidden
    /\ UNCHANGED <<reactVars, timeVars, posVars, statVars, buttons,
                   cpsOut, emitted, obsVars>>
    /\ UNCHANGED <<now, vsync, locked, setg, size, timers>>

\* onVis: visibilitychange
onVis ==
    /\ inputs < MaxInputs
    /\ inputs' = inputs + 1
    /\ hidden' = ~hidden
    /\ IF hidden' /\ running
       THEN endSession
       ELSE UNCHANGED <<reactVars, timeVars, posVars, statVars, buttons,
                        cpsOut, emitted, obsVars>>
    /\ UNCHANGED <<now, vsync, locked, setg, size, timers>>

\* the callback of setTimeout(endSession, 0)
DeferredEnd ==
    /\ timers > 0
    /\ timers' = timers - 1
    /\ endSession
    /\ UNCHANGED <<hostVars, inputs>>

(***************************************************************************)
(* Pointer input.                                                          *)
(***************************************************************************)
\* onMouseDown on the canvas; the pointer lock it requests is granted
onMouseDown ==
    /\ ~hidden
    /\ inputs < MaxInputs
    /\ inputs' = inputs + 1
    /\ \E b \in Buttons :
        /\ buttons' = [L |-> buttons.L \/ b = 0,
                       M |-> buttons.M \/ b = 1,
                       R |-> buttons.R \/ b = 2]
        /\ leftCount' = IF b = 0 THEN leftCount + 1 ELSE leftCount
        /\ lTimestamps' = IF b = 0 THEN Append(lTimestamps, now) ELSE lTimestamps
        /\ midCount' = IF b = 1 THEN midCount + 1 ELSE midCount
        /\ rightCount' = IF b = 2 THEN rightCount + 1 ELSE rightCount
        /\ downTimes' = IF b = 0 THEN Append(downTimes, now) ELSE downTimes
        /\ locked' = TRUE
    /\ fresh' = FALSE
    /\ UNCHANGED <<now, vsync, hidden, setg, size, reactVars, timers, timeVars,
                   posVars, errorHistory, pathPoints, cpsOut, emitted, started,
                   dirtyAtStart, frames, step, motion>>

\* a slip: the release of a button counted as a click too
onMouseUp_Counts ==
    /\ ~hidden
    /\ inputs < MaxInputs
    /\ inputs' = inputs + 1
    /\ \E b \in Buttons :
        /\ (b = 0 /\ buttons.L) \/ (b = 1 /\ buttons.M) \/ (b = 2 /\ buttons.R)
        /\ buttons' = [L |-> buttons.L /\ b # 0,
                       M |-> buttons.M /\ b # 1,
                       R |-> buttons.R /\ b # 2]
        /\ leftCount' = IF b = 0 THEN leftCount + 1 ELSE leftCount
        /\ midCount' = IF b = 1 THEN midCount + 1 ELSE midCount
        /\ rightCount' = IF b = 2 THEN rightCount + 1 ELSE rightCount
    /\ UNCHANGED <<hostVars, reactVars, timers, timeVars, posVars,
                   errorHistory, pathPoints, lTimestamps, cpsOut, emitted,
                   obsVars>>

\* onMouseUp on the window
onMouseUp ==
    /\ ~hidden
    /\ inputs < MaxInputs
    /\ inputs' = inputs + 1
    /\ \E b \in Buttons :
        /\ (b = 0 /\ buttons.L) \/ (b = 1 /\ buttons.M) \/ (b = 2 /\ buttons.R)
        /\ buttons' = [L |-> buttons.L /\ b # 0,
                       M |-> buttons.M /\ b # 1,
                       R |-> buttons.R /\ b # 2]
    /\ UNCHANGED <<hostVars, reactVars, timers, timeVars, posVars, statVars,
                   cpsOut, emitted, obsVars>>

\* a slip: movementY taken without the pointer lock
onMouseMove_NoLockCheck ==
    /\ ~hidden
    /\ inputs < MaxInputs
    /\ inputs' = inputs + 1
    /\ \E e \in MoveEvents :
        /\ lastMouseDy' = e.my
        /\ aimRef' =
            IF setg.cursorMode = "free"
            THEN IF locked
                 THEN [x |-> clamp(aimRef.x + e.mx * FrameHz, 0, size.w * FrameHz),
                       y |-> clamp(aimRef.y + e.my * FrameHz, 0, size.h * FrameHz)]
                 ELSE [x |-> clamp(e.cx * FrameHz, 0, size.w * FrameHz),
                       y |-> clamp(e.cy * FrameHz, 0, size.h * FrameHz)]
            ELSE aimRef
    /\ motion' = TRUE
    /\ UNCHANGED <<hostVars, reactVars, timers, timeVars, target, statVars,
                   buttons, cpsOut, emitted, started, dirtyAtStart, fresh,
                   frames, step, downTimes>>

\* onMouseMove on the window
onMouseMove ==
    /\ ~hidden
    /\ inputs < MaxInputs
    /\ inputs' = inputs + 1
    /\ \E e \in MoveEvents :
        /\ lastMouseDy' = IF locked THEN e.my ELSE 0
        /\ aimRef' =
            IF setg.cursorMode = "free"
            THEN IF locked
                 THEN [x |-> clamp(aimRef.x + e.mx * FrameHz, 0, size.w * FrameHz),
                       y |-> clamp(aimRef.y + e.my * FrameHz, 0, size.h * FrameHz)]
                 ELSE [x |-> clamp(e.cx * FrameHz, 0, size.w * FrameHz),
                       y |-> clamp(e.cy * FrameHz, 0, size.h * FrameHz)]
            ELSE aimRef
    /\ motion' = TRUE
    /\ UNCHANGED <<hostVars, reactVars, timers, timeVars, target, statVars,
                   buttons, cpsOut, emitted, started, dirtyAtStart, fresh,
                   frames, step, downTimes>>

\* Escape: the host releases the pointer lock
ReleaseLock ==
    /\ locked
    /\ inputs < MaxInputs
    /\ inputs' = inputs + 1
    /\ locked' = FALSE
    /\ UNCHANGED <<now, vsync, hidden, setg, size, reactVars, timers, timeVars,
                   posVars, statVars, buttons, cpsOut, emitted, obsVars>>

\* a slip: the callback stores the new size and leaves the aim where it was
onResize_KeepAim ==
    /\ ~hidden
    /\ inputs < MaxInputs
    /\ inputs' = inputs + 1
    /\ \E sz \in Sizes :
        /\ sz # size
        /\ size' = sz
    /\ UNCHANGED <<now, vsync, hidden, locked, setg, reactVars, timers,
                   timeVars, posVars, statVars, buttons, cpsOut, emitted,
                   obsVars>>

\* a slip: the callback puts the target back at its start position
onResize_MovesTarget ==
    /\ ~hidden
    /\ inputs < MaxInputs
    /\ inputs' = inputs + 1
    /\ \E sz \in Sizes :
        /\ sz # size
        /\ size' = sz
        /\ aimRef' = [x |-> (sz.w * FrameHz) \div 2, y |-> (sz.h * FrameHz) \div 2]
        /\ target' = [x |-> (sz.w * FrameHz) \div 2,
                      y |-> ((sz.h * 3) \div 4) * FrameHz]
    /\ UNCHANGED <<now, vsync, hidden, locked, setg, reactVars, timers,
                   timeVars, lastMouseDy, statVars, buttons, cpsOut,
                   emitted, obsVars>>

\* the ResizeObserver callback
onResize ==
    /\ ~hidden
    /\ inputs < MaxInputs
    /\ inputs' = inputs + 1
    /\ \E sz \in Sizes :
        /\ sz # size
        /\ size' = sz
        /\ aimRef' = [x |-> (sz.w * FrameHz) \div 2, y |-> (sz.h * FrameHz) \div 2]
    /\ UNCHANGED <<now, vsync, hidden, locked, setg, reactVars, timers,
                   timeVars, target, lastMouseDy, statVars, buttons, cpsOut,
                   emitted, obsVars>>

\* the settings one change of a control panel input leads to: the cursor
\* mode select, the duration input
SettingEdits ==
    { [setg EXCEPT !.cursorMode = IF @ = "fixed" THEN "free" ELSE "fixed"],
      [setg EXCEPT !.durationSec = IF @ = 5 THEN 6 ELSE 5] }

\* updateSetting: the component is rendered again with the new settings,
\* and the loop effect is registered again with them
updateSetting ==
    /\ ~hidden
    /\ inputs < MaxInputs
    /\ inputs' = inputs + 1
    /\ \E s \in SettingEdits : setg' = s
    /\ rafPending' = (running \/ rafPending)
    /\ rafQueue' = IF running THEN Rerendered(rafQueue, rafPending)
                   ELSE rafQueue
    /\ UNCHANGED <<now, vsync, hidden, locked, size, running, countdown,
                   timeLeft, timers, timeVars, posVars, statVars, buttons,
                   cpsOut, emitted, obsVars>>

(***************************************************************************)
(* The clock.  A zero-delay timer is due at once: the host runs it before  *)
(* the clock advances by a whole step.  Every advance brings a display     *)
(* refresh, and a requested frame callback runs at its refresh: the clock  *)
(* does not advance past a refresh whose callback is still due.            *)
(***************************************************************************)
Tick ==
    /\ timers = 0
    /\ ~(rafPending /\ vsync /\ ~hidden)
    /\ \E d \in TickSteps :
        /\ now + d <= MaxNow
        /\ now' = now + d
    /\ vsync' = TRUE
    /\ UNCHANGED <<hidden, locked, setg, size, reactVars, timers, timeVars,
                   posVars, statVars, buttons, cpsOut, emitted, obsVars,
                   inputs>>

(***************************************************************************)
(* One pass of loop, the requestAnimationFrame callback of the main-loop   *)
(* effect.  The canvas elements exist while the component is mounted.      *)
(***************************************************************************)
\* countdown seconds left at a frame
CdLeft(cdElapsed) ==
    Max(0, setg.countdownSec - FloorDiv(cdElapsed, 1000))

\* a slip: the magnitude test forgets upward (negative) deltas
DeadZone_NoAbs(dy) == IF dy > 0 /\ dy < setg.deadZoneY THEN 0 ELSE dy

\* the vertical delta after the dead-zone rule
DeadZone(dy) == IF Abs(dy) < setg.deadZoneY THEN 0 ELSE dy

\* a slip: the grace window swallows upward deltas too
Grace_BothWays(dy, inGrace) == IF inGrace THEN 0 ELSE dy

\* the vertical delta after the start-grace rule
Grace(dy, inGrace) == IF inGrace /\ dy > 0 THEN 0 ELSE dy

\* a slip: the compensation applied in every cursor mode
Comp_AnyMode(dy) == dy * setg.compensationGain * FrameHz

\* the compensation term, in position units
Comp(dy) ==
    IF setg.cursorMode = "fixed" THEN dy * setg.compensationGain * FrameHz ELSE 0

\* a slip: the compensation applied to both coordinates
Recoiled_BothAxes(vy, comp) ==
    [x |-> target.x + comp, y |-> target.y - vy + comp]

\* target.current.y -= vy; target.current.y += comp: the recoil
\* displacement of one frame and the compensation
Recoiled(vy, comp) == [target EXCEPT !.y = target.y - vy + comp]

\* a slip: the wrap taken one radius late
Wrap_Late(t, off) ==
    IF t.y < -(2 * setg.targetRadius * FrameHz)
    THEN [x |-> clamp(t.x + off * FrameHz,
                      setg.targetRadius * FrameHz,
                      (size.w - setg.targetRadius) * FrameHz),
          y |-> (size.h + setg.targetRadius) * FrameHz]
    ELSE t

\* a slip: the new x is not clamped to the playfield
Wrap_NoClamp(t, off) ==
    IF t.y < -(setg.targetRadius * FrameHz)
    THEN [x |-> t.x + off * FrameHz,
          y |-> (size.h + setg.targetRadius) * FrameHz]
    ELSE t

\* the wrap rule
Wrap(t, off) ==
    IF t.y < -(setg.targetRadius * FrameHz)
    THEN [x |-> clamp(t.x + off * FrameHz,
                      setg.targetRadius * FrameHz,
                      (size.w - setg.targetRadius) * FrameHz),
          y |-> (size.h + setg.targetRadius) * FrameHz]
    ELSE t

\* a slip: the history grows without the cap
PushError_NoCap(h, err) == Append(h, err)

\* errorHistory.push(err) with the cap
PushError(h, err) ==
    LET h1 == Append(h, err)
    IN  IF Len(h1) > ErrCap THEN Tail(h1) ELSE h1

\* the path overlay history
PushPath(p, t) ==
    IF setg.showPath
    THEN LET p1 == Append(p, <<t.x, t.y>>)
         IN  IF Len(p1) > PathCap THEN Tail(p1) ELSE p1
    ELSE <<>>

\* a slip: a click exactly one second old already dropped
Prune_Strict(ts) == SelectSeq(ts, LAMBDA t : now - t < CpsWindowMs)

\* the trailing one-second window of left-click timestamps
Prune(ts) == SelectSeq(ts, LAMBDA t : now - t <= CpsWindowMs)

\* if (!startedAtMs.current): the session start is latched on a running
\* frame that finds it unset
\* a slip: the latch taken on every running frame
NeedsLatch_Always(run) == run

NeedsLatch(run) == run /\ startedAtMs = 0

\* the end of the session is handed to a zero-delay timer on the frame
\* that first shows no time left
\* a slip: the end never handed over at exactly zero
EndDue_Never(changed, msLeft) == changed /\ msLeft < 0

EndDue(changed, msLeft) == changed /\ msLeft <= 0

\* if (countdown <= 0): the countdown state of the render that registered
\* the loop shows the countdown over
\* a slip: the last second of the countdown taken as over
CountdownOver_Early == countdown <= 1

CountdownOver == countdown <= 0

\* if (secLeftRounded !== lastSecondShown.current): the displayed second
\* differs from the one shown last
\* a slip: only a falling value taken as a change
SecondChanged_Falling(sec) == sec < lastSecondShown

SecondChanged(sec) == sec # lastSecondShown

loop ==
    /\ rafPending
    /\ vsync
    /\ ~hidden
    /\ \E j \in JitterHalves :
        LET cdElapsed == now - countdownStartMs
            cdLeft == CdLeft(cdElapsed)
            run == CountdownOver
            latch == NeedsLatch(run)
            startedAt == IF latch THEN now ELSE startedAtMs
            endAt == IF latch THEN now + setg.durationSec * 1000
                     ELSE sessionEndAtMs
            msLeft == Max(0, endAt - now)
            secLeftRounded == CeilDiv(msLeft, 1000)
            changed == run /\ SecondChanged(secLeftRounded)
            upPerSec == setg.recoilSpeed + (j * setg.recoilJitter) \div 2
            vy == upPerSec
            sinceSessionStart ==
                IF startedAt # 0 THEN now - startedAt
                ELSE cdElapsed - setg.countdownSec * 1000
            inGrace == sinceSessionStart < setg.startGraceMs
            dy == Grace(DeadZone(lastMouseDy), inGrace)
            comp == Comp(dy)
            moved == Recoiled(vy, comp)
            wraps == run /\ moved.y < -(setg.targetRadius * FrameHz)
        IN
        \E off \in (IF wraps THEN WrapOffsets ELSE {0}) :
            LET newTarget == IF run THEN Wrap(moved, off) ELSE target
                ax == IF setg.cursorMode = "free" THEN aimRef.x
                      ELSE (size.w * FrameHz) \div 2
                ay == IF setg.cursorMode = "free" THEN aimRef.y
                      ELSE (size.h * FrameHz) \div 2
                err == hypot(newTarget.x - ax, newTarget.y - ay)
            IN
            /\ countdown' = cdLeft
            /\ startedAtMs' = startedAt
            /\ sessionEndAtMs' = endAt
            /\ lastSecondShown' = IF changed THEN secLeftRounded ELSE lastSecondShown
            /\ timeLeft' = IF changed THEN msLeft ELSE timeLeft
            /\ timers' = IF EndDue(changed, msLeft) THEN timers + 1 ELSE timers
            /\ target' = newTarget
            /\ pathPoints' = PushPath(pathPoints, newTarget)
            /\ errorHistory' = PushError(errorHistory, err)
            /\ lTimestamps' = Prune(lTimestamps)
            /\ cpsOut' = Len(Prune(lTimestamps))
            /\ step' = IF run
                       THEN [run |-> TRUE, vy |-> vy, dyIn |-> lastMouseDy,
                             dy |-> dy, comp |-> comp, yMid |-> moved.y,
                             wrap |-> wraps, inGrace |-> inGrace,
                             msLeft |-> msLeft]
                       ELSE NoStep
    /\ vsync' = FALSE
    /\ rafPending' = TRUE
    /\ rafQueue' = LET requested == (rafQueue - 1) + 1
                   IN IF running THEN Rerendered(requested, TRUE)
                      ELSE requested
    /\ frames' = frames + 1
    /\ fresh' = FALSE
    /\ motion' = FALSE
    /\ UNCHANGED <<now, hidden, locked, setg, size, running, countdownStartMs,
                   aimRef, lastMouseDy, leftCount, midCount, rightCount,
                   buttons, emitted, started, dirtyAtStart, downTimes,
                   inputs>>

Next ==
    \/ onKey
    \/ onButtonClick
    \/ onVis
    \/ DeferredEnd
    \/ onMouseDown
    \/ onMouseUp
    \/ onMouseMove
    \/ ReleaseLock
    \/ onResize
    \/ updateSetting
    \/ Tick
    \/ loop

Spec == Init /\ [][Next]_vars

SpecJitter == InitJitter /\ [][Next]_vars

SpecStill == InitStill /\ [][Next]_vars

SpecLong == InitLong /\ [][Next]_vars

\* a requested frame callback is due: the guard of loop, which is enabled
\* exactly when it holds
FrameDue == rafPending /\ vsync /\ ~hidden

\* the clock advances, a timer that is due is run, and a requested frame
\* callback is run at its refresh: weak fairness of Tick, of DeferredEnd and
\* of loop, the last written out as "a frame does not stay due for ever"
Fairness == WF_vars(Tick) /\ WF_vars(DeferredEnd) /\ []<>~FrameDue

SpecFair == InitFair /\ [][Next]_vars /\ Fairness

(***************************************************************************)
(* Properties.                                                             *)
(***************************************************************************)
R60 == setg.targetRadius * FrameHz

\* a frame pass ran in this step, with the session running
RunningFrame == frames' = frames + 1 /\ step'.run

\* the last session ended by its own timer, at or after its end timestamp
TimedOut ==
    /\ started /\ ~running
    /\ sessionEndAtMs > 0 /\ now >= sessionEndAtMs
    /\ Len(emitted) = 1

\* shot counts over which the hit-rate estimator is compared
MaxShots == 4

\* C1: every session makes exactly one onSessionEnd call: none while the
\* session is active, one once it has ended, never two.
C1_ExactlyOnce ==
    /\ Len(emitted) <= 1
    /\ (running => Len(emitted) = 0)
    /\ (started /\ ~running => Len(emitted) = 1)

\* C2: endSession invoked while no session is active is a no-op: a step
\* that starts and ends with no session active emits no summary.
C2_EndIdempotent ==
    [][(~running /\ ~running') => emitted' = emitted]_vars

\* C3: after startSession, as long as neither a frame nor a mouse-down of
\* the new session has happened, both histories and the timestamp sequence
\* are empty and the three click counters are 0.
C3_StartResets ==
    fresh => /\ errorHistory = <<>>
             /\ pathPoints = <<>>
             /\ lTimestamps = <<>>
             /\ leftCount = 0 /\ midCount = 0 /\ rightCount = 0

\* a restart that found clicks and frames of the previous session
C3_Witness == fresh /\ dirtyAtStart /\ running

\* C4: while no session is active no frame pass executes: target and error
\* history stay as they are and no click timestamp is pruned.
C4_NoFrameAfterEnd ==
    [][(~running /\ ~running') =>
          /\ frames' = frames
          /\ target' = target
          /\ errorHistory' = errorHistory
          /\ Len(lTimestamps') >= Len(lTimestamps)]_vars

\* an ended session with frames behind it and a display refresh due
C4_Witness ==
    /\ started /\ ~running /\ Len(emitted) = 1
    /\ frames > 0 /\ vsync /\ ~hidden /\ ~rafPending

\* C5: a running frame whose update leaves y < -radius sets y to
\* height + radius and x to the old x plus an offset in [-100, 100],
\* clamped into [radius, width - radius].
C5_Wrap ==
    [][(RunningFrame /\ step'.yMid < -R60) =>
          /\ target'.y = (size.h + setg.targetRadius) * FrameHz
          /\ target'.x >= R60
          /\ target'.x <= (size.w - setg.targetRadius) * FrameHz
          /\ \E off \in -100..100 :
                target'.x = clamp(target.x + off * FrameHz, R60,
                                  (size.w - setg.targetRadius) * FrameHz)]_vars

\* a wrap that moved the target sideways
C5_Witness ==
    /\ step.run /\ step.wrap
    /\ target.y = (size.h + setg.targetRadius) * FrameHz
    /\ target.x # (size.w * FrameHz) \div 2

\* C6: in fixed mode a running frame with |delta| < deadZoneY adds no
\* compensation: y changes by the recoil displacement only (or wraps).
C6_DeadZone ==
    [][(/\ RunningFrame
        /\ setg.cursorMode = "fixed"
        /\ Abs(lastMouseDy) < setg.deadZoneY) =>
          /\ step'.comp = 0
          /\ \/ target'.y = target.y - step'.vy
             \/ step'.wrap]_vars

\* a running frame in fixed mode with a non-zero delta inside the dead-zone
C6_Witness ==
    /\ step.run /\ setg.cursorMode = "fixed" /\ setg.compensationGain > 0
    /\ step.dyIn # 0 /\ Abs(step.dyIn) < setg.deadZoneY
    /\ step.comp = 0

\* C7: a downward delta at or above the dead-zone is zeroed on a running
\* frame before sessionStart + startGraceMs and kept from then on; an
\* upward delta is kept on every running frame.
C7_Grace ==
    [][(RunningFrame /\ Abs(lastMouseDy) >= setg.deadZoneY) =>
          LET early == now < startedAtMs' + setg.startGraceMs
          IN  /\ (lastMouseDy > 0 /\ early) => step'.dy = 0
              /\ (lastMouseDy > 0 /\ ~early) => step'.dy = lastMouseDy
              /\ lastMouseDy < 0 => step'.dy = lastMouseDy]_vars

\* a downward delta zeroed inside the grace window
C7_Witness ==
    /\ step.run /\ step.inGrace
    /\ step.dyIn > 0 /\ step.dyIn >= setg.deadZoneY
    /\ step.dy = 0

\* C8 as stated: for a fixed error history the hit-rate does not fall when
\* the shot count grows.
C8_HitRateMonotonic ==
    \A s1, s2 \in 0..MaxShots :
        s1 < s2 => HitRate(errorHistory, s1, setg.targetRadius)
                     <= HitRate(errorHistory, s2, setg.targetRadius)

\* C8 amended: for a fixed error history the estimated number of hits
\* (approxHits) does not fall when the shot count grows.
C8_ApproxHitsMonotonic ==
    \A s1, s2 \in 0..MaxShots :
        s1 < s2 => ApproxHits(errorHistory, s1, setg.targetRadius)
                     <= ApproxHits(errorHistory, s2, setg.targetRadius)

\* a history of hit and missed frames on which the hit-rate does fall
C8_Witness ==
    /\ HitFrames(errorHistory, setg.targetRadius) > 0
    /\ HitFrames(errorHistory, setg.targetRadius) < Len(errorHistory)
    /\ \E s1, s2 \in 1..MaxShots :
        /\ s1 < s2
        /\ HitRate(errorHistory, s1, setg.targetRadius)
             > HitRate(errorHistory, s2, setg.targetRadius)

\* (n - 1) / (last - first), in hundredths, 0 below two timestamps or on an
\* empty span
IntervalCps(ts) ==
    IF Len(ts) >= 2 /\ ts[Len(ts)] - ts[1] > 0
    THEN RoundDiv((Len(ts) - 1) * 1000 * 100, ts[Len(ts)] - ts[1])
    ELSE 0

\* C9: the avgCps of an emitted summary is (n - 1) / (last - first) over the
\* recorded left-click timestamps, and 0 below two timestamps or on an
\* empty span.
C9_AvgCps ==
    [][Len(emitted') = Len(emitted) + 1 =>
          emitted'[Len(emitted')].avgCps = IntervalCps(lTimestamps)]_vars

\* C10: a session that timed out and whose only left clicks came at 0 s and
\* at 1 s after startSession reports shots = 2 and avgCps = 1.00.
C10_EndToEnd ==
    (TimedOut /\ downTimes = <<countdownStartMs, countdownStartMs + 1000>>) =>
        /\ emitted[1].shots = 2
        /\ emitted[1].avgCps = 100

C12_Guards ==
    [][Len(emitted') = Len(emitted) + 1 =>
          LET s == emitted'[Len(emitted')]
              n == Len(lTimestamps)
          IN  /\ s.avgError \in Nat /\ s.hitRate \in Nat
              /\ s.shots \in Nat /\ s.avgCps \in Nat
              /\ s.durationSec \in Nat
              /\ errorHistory = <<>> => (s.avgError = 0 /\ s.hitRate = 0)
              /\ leftCount = 0 => s.hitRate = 0
              /\ n < 2 => s.avgCps = 0
              /\ (n >= 2 /\ lTimestamps[n] = lTimestamps[1]) => s.avgCps = 0]_vars

\* a summary built from two clicks with the same timestamp
C12_Witness ==
    /\ ~running /\ Len(emitted) >= 1
    /\ Len(lTimestamps) = 2
    /\ lTimestamps[1] = lTimestamps[2]
    /\ errorHistory # <<>>
    /\ emitted[Len(emitted)].shots = 2
    /\ emitted[Len(emitted)].avgCps = 0

\* C13: a visibilitychange that hides the document while a session is
\* active ends it: the session is no longer active, its summary is
\* emitted and no frame is requested; any other visibility change leaves
\* the session state, the statistics and the emitted summaries alone.
C13_VisibilityEnds ==
    [][hidden' # hidden =>
          IF hidden' /\ running
          THEN /\ ~running' /\ ~rafPending'
               /\ emitted' = Append(emitted, Summary)
          ELSE UNCHANGED <<reactVars, timeVars, posVars, statVars, timers,
                           emitted>>]_vars

\* a session with frames behind it, ended by the document being hidden
C13_Witness ==
    /\ hidden /\ started /\ ~running /\ ~rafPending
    /\ inputs = 2 /\ frames > 1
    /\ now < sessionEndAtMs
    /\ Len(emitted) = 1

\* C14: a press of the Space key starts a session when none is active
\* (the statistics reset, the countdown set, a frame requested) and ends
\* the session when one is active, during the countdown as well as after
\* it (one more summary, no frame requested); a press from Idle followed at
\* once by a second press therefore makes one start and then one end.
C14_SpaceToggles ==
    [][onKey =>
          IF running
          THEN /\ ~running' /\ ~rafPending'
               /\ Len(emitted') = Len(emitted) + 1
               /\ countdownStartMs' = countdownStartMs
               /\ leftCount' = leftCount
          ELSE /\ running' /\ rafPending'
               /\ countdownStartMs' = now
               /\ countdown' = setg.countdownSec
               /\ startedAtMs' = 0
               /\ emitted' = <<>>
               /\ leftCount' = 0 /\ errorHistory' = <<>>]_vars

\* two presses in a row from Idle: one session started and ended during
\* its countdown, with no frame in between
C14_Witness ==
    /\ started /\ ~running /\ ~hidden
    /\ inputs = 2 /\ frames = 0
    /\ setg.countdownSec > 0
    /\ countdownStartMs = now
    /\ Len(emitted) = 1

\* C15: the cps value handed to onClickUpdate by a frame is the number of
\* left-button-down timestamps recorded since the last startSession that
\* are at most one second old at that frame.
C15_LiveCps ==
    [][frames' = frames + 1 =>
          cpsOut' = Cardinality({i \in DOMAIN downTimes :
                                    now - downTimes[i] <= 1000})]_vars

\* a frame that counts a click exactly one second old and leaves out an
\* older click of the same session
C15_Witness ==
    /\ running /\ ~vsync /\ frames > 0
    /\ Len(downTimes) = 2
    /\ now - downTimes[1] > 1000
    /\ now - downTimes[2] = 1000
    /\ cpsOut = 1

\* C16: the session start is set only by a frame that runs with the
\* countdown at 0 and finds it unset, to the time of that frame, together
\* with the session end = start + durationSec * 1000; the first such frame
\* sets it; once set, no step other than the next startSession changes
\* either value, a later change of the settings included.
C16_LazyLatch ==
    [][/\ (startedAtMs # 0 /\ ~(~running /\ running')) =>
             /\ startedAtMs' = startedAtMs
             /\ sessionEndAtMs' = sessionEndAtMs
       /\ (startedAtMs = 0 /\ startedAtMs' # 0) =>
             /\ frames' = frames + 1 /\ countdown <= 0
             /\ startedAtMs' = now
             /\ sessionEndAtMs' = now + setg.durationSec * 1000
       /\ (startedAtMs = 0 /\ frames' = frames + 1 /\ countdown <= 0) =>
             startedAtMs' # 0
       /\ (startedAtMs = 0 /\ startedAtMs' = 0) => sessionEndAtMs' = 0]_vars

\* frames of a session that keep the latched start and end after the
\* countdown and after the duration setting was changed
C16_Witness ==
    /\ running /\ frames > 2 /\ ~vsync
    /\ setg.countdownSec > 0
    /\ startedAtMs > countdownStartMs
    /\ now > startedAtMs
    /\ sessionEndAtMs # startedAtMs + setg.durationSec * 1000

\* the centre of the canvas
Centre == [x |-> (size.w * FrameHz) \div 2, y |-> (size.h * FrameHz) \div 2]

\* C17: startSession initialises the aim point by the cursor mode in force:
\* in fixed mode to the canvas centre; in free mode to the position derived
\* from the pointer (without the pointer lock an off-centre aimRef is the
\* clamped position of the last pointer event, and stays the aim point).
C17_AimInit ==
    [][(~running /\ running') =>
          IF setg.cursorMode = "fixed"
          THEN aimRef' = Centre
          ELSE (~locked /\ aimRef # Centre) => aimRef' = aimRef]_vars

\* C18: the shots of an emitted summary is the number of left-button-down
\* events since the most recent startSession: downs during the countdown
\* count, downs before that startSession do not.
C18_Shots ==
    [][Len(emitted') = Len(emitted) + 1 =>
          emitted'[Len(emitted')].shots = Len(downTimes)]_vars

\* a summary whose one shot was fired during the countdown
C18_Witness ==
    /\ started /\ ~running /\ Len(emitted) = 1
    /\ setg.countdownSec > 0
    /\ Len(downTimes) = 1
    /\ downTimes[1] < countdownStartMs + setg.countdownSec * 1000
    /\ startedAtMs > downTimes[1]
    /\ emitted[1].shots = 1

\* C19: a running frame before which no mousemove event arrived since the
\* previous frame takes 0 as its compensation input and moves the target
\* by no compensation: one pointer move compensates on at most one frame.
C19_DeltaPerFrame ==
    [][(RunningFrame /\ ~motion) =>
          (step'.dyIn = 0 /\ step'.comp = 0)]_vars

\* C20: the callback of the zero-delay end timer ends an active session
\* only at or after the session end timestamp of that session, also when
\* the timer was set by an earlier session.
C20_NoEarlyTimerEnd ==
    [][(timers' = timers - 1 /\ running) =>
          (startedAtMs # 0 /\ now >= sessionEndAtMs)]_vars

\* C21: a running frame hands the end of the session to the timer exactly
\* when its msLeft is 0 and no earlier frame of the session had msLeft = 0,
\* whatever lastSecondShown held before: the first frame out of time
\* triggers the end, and no other frame of the session does.
C21_EndTiming ==
    [][RunningFrame =>
          /\ timers' \in {timers, timers + 1}
          /\ (timers' = timers + 1) <=>
                (step'.msLeft = 0 /\ ~(step.run /\ step.msLeft = 0))]_vars

\* the frame that found no time left and triggered the end, after frames
\* on which the displayed second had changed
C21_Witness ==
    /\ running /\ timers = 1 /\ frames > 1
    /\ step.run /\ step.msLeft = 0
    /\ lastSecondShown = 0
    /\ now = sessionEndAtMs

\* C22: with the clock advancing and frames and timers run when due, a
\* started session whose countdown fits into the modelled time reaches its
\* running phase or is ended, and a running session whose end timestamp
\* lies within the modelled time is ended with its summary emitted: no
\* stop is needed for either.
C22_EventuallyEnds ==
    /\ (/\ running /\ startedAtMs = 0
        /\ countdownStartMs + (setg.countdownSec + 1) * 1000 <= MaxNow)
         ~> (~running \/ startedAtMs # 0)
    /\ (running /\ startedAtMs # 0 /\ sessionEndAtMs <= MaxNow)
         ~> (~running /\ Len(emitted) >= 1)

\* a session ended by its own timer, with no input after its start
C22_Witness ==
    /\ TimedOut /\ inputs = MaxInputs - 1 /\ timers = 0
    /\ frames > setg.durationSec

C24_FreeNoCompensation ==
    [][(RunningFrame /\ setg.cursorMode = "free") =>
          /\ step'.comp = 0
          /\ step'.yMid = target.y - step'.vy
          /\ ~step'.wrap => target'.y = target.y - step'.vy]_vars

\* a running frame in free mode with a pointer delta that passed the dead
\* zone and the grace rule, and a positive gain
C24_Witness ==
    /\ step.run /\ ~vsync
    /\ setg.cursorMode = "free" /\ setg.compensationGain > 0
    /\ step.dyIn # 0 /\ step.dy # 0
    /\ step.comp = 0

\* C25: a mousemove event that arrives while the pointer lock is not held
\* stores a vertical delta of 0 and leaves the target alone, and in fixed
\* mode a running frame that finds a delta of 0 moves the target by the
\* recoil displacement only.
C25_NoLockNoDelta ==
    [][/\ (onMouseMove /\ ~locked) =>
             (lastMouseDy' = 0 /\ target' = target)
       /\ (RunningFrame /\ lastMouseDy = 0 /\ setg.cursorMode = "fixed") =>
             /\ step'.comp = 0
             /\ step'.yMid = target.y - step'.vy]_vars

\* a running session in fixed mode with a positive gain, in which the
\* pointer moved without the lock since the last frame
C25_Witness ==
    /\ running /\ startedAtMs # 0
    /\ setg.cursorMode = "fixed" /\ setg.compensationGain > 0
    /\ ~locked /\ motion
    /\ lastMouseDy = 0

\* C26 as stated: a running frame that does not wrap leaves target.x
\* unchanged, and no input event changes the target.
C26_NoHorizontal ==
    [][/\ (RunningFrame /\ ~step'.wrap) => target'.x = target.x
       /\ inputs' = inputs + 1 => target' = target]_vars

\* C26 amended: a running frame that does not wrap leaves target.x
\* unchanged, and no input event changes the target except one that starts
\* a session, which puts the target at its start position.
C26_NoHorizontalButStart ==
    [][/\ (RunningFrame /\ ~step'.wrap) => target'.x = target.x
       /\ (inputs' = inputs + 1 /\ ~(~running /\ running')) => target' = target
       /\ (~running /\ running') =>
             target' = [x |-> (size.w * FrameHz) \div 2,
                        y |-> ((size.h * 3) \div 4) * FrameHz]]_vars

\* running frames without a wrap, with a compensated pointer delta and a
\* click among the inputs, and the target still at its first x
C26_Witness ==
    /\ step.run /\ ~step.wrap /\ frames > 1
    /\ step.comp # 0 /\ leftCount > 0
    /\ target.x = (size.w * FrameHz) \div 2
    /\ target.y # ((size.h * 3) \div 4) * FrameHz

\* C27: every frame appends one entry to the error history, which never
\* holds more than 300 entries after it: below 300 the earlier entries all
\* stay in place, at 300 the oldest entry is dropped and the others move up
\* by one, in order.
C27_ErrorHistoryCap ==
    [][frames' = frames + 1 =>
          LET n == Len(errorHistory)
          IN  /\ Len(errorHistory') <= 300
              /\ IF n < 300
                 THEN /\ Len(errorHistory') = n + 1
                      /\ \A i \in 1..n : errorHistory'[i] = errorHistory[i]
                 ELSE /\ Len(errorHistory') = 300
                      /\ \A i \in 1..299 :
                            errorHistory'[i] = errorHistory[i + 1]]_vars

\* a full history from which frames have dropped the oldest entries
C27_Witness ==
    /\ running /\ ~vsync
    /\ Len(errorHistory) = 300
    /\ frames > 302

\* C28: a mousedown adds 1 to the counter of its button and leaves the
\* other two counters alone, a mouseup leaves all three alone, and no step
\* other than a startSession lowers a counter.
C28_ClickCounters ==
    [][/\ onMouseDown =>
             \E b \in Buttons :
                /\ leftCount' = leftCount + (IF b = 0 THEN 1 ELSE 0)
                /\ midCount' = midCount + (IF b = 1 THEN 1 ELSE 0)
                /\ rightCount' = rightCount + (IF b = 2 THEN 1 ELSE 0)
                /\ (b = 0 /\ buttons'.L) \/ (b = 1 /\ buttons'.M)
                      \/ (b = 2 /\ buttons'.R)
       /\ onMouseUp =>
             UNCHANGED <<leftCount, midCount, rightCount>>
       /\ ~(~running /\ running') =>
             /\ leftCount' >= leftCount
             /\ midCount' >= midCount
             /\ rightCount' >= rightCount]_vars

\* a left click pressed and released and a middle button still held
C28_Witness ==
    /\ leftCount = 1 /\ midCount = 1 /\ rightCount = 0
    /\ ~buttons.L /\ buttons.M /\ ~buttons.R

\* C29: in free cursor mode the aim point lies within the canvas,
\* 0 <= aim.x <= width and 0 <= aim.y <= height, in every reachable state.
C29_AimInBounds ==
    setg.cursorMode = "free" =>
        /\ 0 <= aimRef.x /\ aimRef.x <= size.w * FrameHz
        /\ 0 <= aimRef.y /\ aimRef.y <= size.h * FrameHz

\* free mode, after a resize and a captured move that ran into the right edge
C29_Witness ==
    /\ setg.cursorMode = "free"
    /\ locked
    /\ motion
    /\ size = [w |-> 64, h |-> 32]
    /\ aimRef.x = size.w * FrameHz
    /\ aimRef.y # (size.h * FrameHz) \div 2

\* C30: a resize changes the canvas size and the aim point and nothing
\* else: the target, the error history, the click counters and the session
\* timestamps are as they were.
C30_ResizeKeepsSession ==
    [][size' # size =>
          /\ aimRef' = [x |-> (size'.w * FrameHz) \div 2,
                        y |-> (size'.h * FrameHz) \div 2]
          /\ UNCHANGED <<target, errorHistory, leftCount, midCount,
                         rightCount, lTimestamps, timeVars, pathPoints,
                         lastMouseDy, reactVars, timers, emitted>>]_vars

\* a session resized after its target has moved: the target is no longer
\* where a start would put it in the canvas of the new size
C30_Witness ==
    /\ running
    /\ startedAtMs # 0
    /\ size = [w |-> 64, h |-> 32]
    /\ target.x = 20 * FrameHz
    /\ Len(errorHistory) >= 2
    /\ leftCount = 1

\* C31: in every reachable state at most one frame callback is requested,
\* and it is the one rafId.current names: the re-renders of a session (one
\* after every frame pass, one after a settings change, one after a start)
\* cancel the request of the effect they tear down.
C31_OneFrameCallback ==
    /\ rafQueue <= 1
    /\ rafPending <=> rafQueue = 1

\* a session after frame passes that changed the time left, and a settings
\* change in between: the effect was registered again each time
C31_Witness ==
    /\ running
    /\ rafQueue = 1
    /\ frames >= 2
    /\ timeLeft < setg.durationSec * 1000
    /\ setg \notin SettingsSet

\* C32: for the error history of every reachable state and every shot
\* count, approxHits lies in 0..shots and the hit-rate in 0..100 percent
\* (0..1000 tenths); the hit-rate of every emitted summary lies in that
\* range.
C32_HitRateRange ==
    /\ \A s \in 0..MaxShots :
          /\ ApproxHits(errorHistory, s, setg.targetRadius) >= 0
          /\ ApproxHits(errorHistory, s, setg.targetRadius) <= s
          /\ HitRate(errorHistory, s, setg.targetRadius) >= 0
          /\ HitRate(errorHistory, s, setg.targetRadius) <= 1000
    /\ \A i \in 1..Len(emitted) :
          emitted[i].hitRate >= 0 /\ emitted[i].hitRate <= 1000

\* a summary emitted with one shot and a full history of hit and missed
\* frames, on which more shots give a hit count strictly between 0 and the
\* shots
C32_Witness ==
    /\ Len(emitted) >= 1
    /\ emitted[1].shots = 1
    /\ Len(errorHistory) = ErrCap
    /\ HitFrames(errorHistory, setg.targetRadius) > 0
    /\ ApproxHits(errorHistory, MaxShots, setg.targetRadius) > 0
    /\ ApproxHits(errorHistory, MaxShots, setg.targetRadius) < MaxShots

\* C33: a start and every frame pass of the running phase leave the target
\* with target.y >= -radius.  (The witness shows the other half: nothing
\* keeps target.y from growing past the lower edge of the playfield.)
C33_TargetLowerBound ==
    [][(RunningFrame \/ (~running /\ running')) =>
          /\ setg' = setg
          /\ target'.y >= -(setg.targetRadius * FrameHz)]_vars

\* a frame pass of the running phase whose compensation exceeded the
\* recoil, with the target left below the playfield, further down than a
\* wrap puts it
C33_Witness ==
    /\ running
    /\ step.run
    /\ step.comp > step.vy
    /\ ~step.wrap
    /\ target.y > (size.h + setg.targetRadius) * FrameHz

====
